---- MODULE Spec2Model ----
(***************************************************************************)
(* A model of pyads/pyads_common.py: the ADSError exception type, the raw  *)
(* UDP exchange send_raw_udp_message and the ctypes value conversion       *)
(* type_is_string / get_value_from_ctype_data.                             *)
(*                                                                         *)
(* Python values are records tagged with their Python type in field "py";  *)
(* an Optional argument is <<>> for None and <<v>> for a given value v.    *)
(* A call's outcome is a record whose field "exc" names the exception that *)
(* left the call ("" when the call returned).                              *)
(***************************************************************************)
EXTENDS Integers, Sequences, FiniteSets, TLC

VARIABLES
    \* ---- ADSError ----
    e_pc,       \* "new" | "built" | "shown"
    e_code,     \* Optional[int] argument err_code
    e_text,     \* Optional[str] argument text
    e_obj,      \* outcome of ADSError(err_code, text)
    e_str,      \* outcome of str(error)
    \* ---- type_is_string / get_value_from_ctype_data ----
    c_pc,       \* "start" | "ready" | "typed" | "decoded"
    c_s,        \* Optional[str]: the text written into the buffer (round trip)
    c_buf,      \* argument read_data
    c_type,     \* argument plc_type
    c_isstr,    \* result of type_is_string(plc_type)
    c_res,      \* outcome of get_value_from_ctype_data(read_data, plc_type)
    \* ---- send_raw_udp_message ----
    x_pc,       \* per caller: the next step of its call ("idle" before it,
                \* "done" when it has returned or raised)
    x_args,     \* per caller: ip_address, message, expected_return_length
    x_sock,     \* per caller: the descriptor its variable sock holds (0: none)
    x_out,      \* per caller: the outcome of the call (return value or exception)
    x_waited,   \* per caller: seconds recvfrom was blocked when it timed out
    x_fds,      \* the process's socket descriptors
    x_net,      \* the datagrams sent and not delivered: on their way, or lost
    \* history of the running call, per caller
    x_log,      \* the socket operations performed, in order
    x_sent,     \* the datagrams handed to the network
    x_got,      \* the datagrams taken from the socket
    x_port      \* the local port the call bound (0: none)

evars == <<e_pc, e_code, e_text, e_obj, e_str>>
cvars == <<c_pc, c_s, c_buf, c_type, c_isstr, c_res>>
xvars == <<x_pc, x_args, x_sock, x_out, x_waited, x_fds, x_net,
           x_log, x_sent, x_got, x_port>>
vars == <<evars, cvars, xvars>>

None == <<>>
Some(v) == <<v>>

(***************************************************************************)
(* Bounds of the model.                                                    *)
(***************************************************************************)
\* error codes are drawn from -MaxCode .. MaxCode
MaxCode == 12
\* arrays have 1 .. MaxLen elements
MaxLen == 3
\* texts written into a character buffer have 0 .. MaxStrLen characters
MaxStrLen == 4
\* calls of send_raw_udp_message, each from a caller of its own: they may
\* overlap or follow one another
MaxCalls == 2

\* pyads.constants.PORT_REMOTE_UDP, imported on line 17: the one remote port
PORT_REMOTE_UDP == "PORT_REMOTE_UDP"
\* sock.settimeout(5)
RECV_TIMEOUT == 5

(***************************************************************************)
(* ADSError                                                                *)
(***************************************************************************)

\* An excerpt of pyads.errorcodes.ERROR_CODES (code -> description).
ERROR_CODES ==
    (0 :> "no error") @@ (1 :> "Internal error") @@ (2 :> "No Rtime")
    @@ (6 :> "target port not found") @@ (7 :> "target machine not found")
    @@ (10 :> "No IO")

\* d[k] of a Python dict: the value, or KeyError.
DictGetItem(d, k) ==
    IF k \in DOMAIN d THEN [exc |-> "", item |-> d[k]] ELSE [exc |-> "KeyError"]

DigitStr(d) == <<"0", "1", "2", "3", "4", "5", "6", "7", "8", "9">>[d + 1]

RECURSIVE NatStr(_)
NatStr(n) == IF n < 10 THEN DigitStr(n) ELSE NatStr(n \div 10) \o DigitStr(n % 10)

\* "{}".format(n) for an int n
IntStr(n) == IF n < 0 THEN "-" \o NatStr(-n) ELSE NatStr(n)

\* InitCodePart with the test "if err_code:" for "if err_code is not None:"
InitCodePart_Truthy(err_code) ==
    IF err_code # None /\ err_code[1] # 0
    THEN LET code == err_code[1]
             look == DictGetItem(ERROR_CODES, code)
         IN  IF look.exc = ""
             THEN [exc |-> "",
                   obj |-> [err_code |-> code,
                            msg |-> look.item \o " (" \o IntStr(code) \o "). "]]
             ELSE [exc |-> "",
                   obj |-> [err_code |-> code,
                            msg |-> "Unknown Error (" \o IntStr(code) \o "). "]]
    ELSE [exc |-> "", obj |-> [msg |-> ""]]

\* InitCodePart with "self.err_code = err_code" moved before the test
InitCodePart_AlwaysAttr(err_code) ==
    IF err_code # None
    THEN LET code == err_code[1]
             look == DictGetItem(ERROR_CODES, code)
         IN  IF look.exc = ""
             THEN [exc |-> "",
                   obj |-> [err_code |-> code,
                            msg |-> look.item \o " (" \o IntStr(code) \o "). "]]
             ELSE [exc |-> "",
                   obj |-> [err_code |-> code,
                            msg |-> "Unknown Error (" \o IntStr(code) \o "). "]]
    ELSE [exc |-> "", obj |-> [err_code |-> None, msg |-> ""]]

\* The code-derived part of __init__ (lines 31-38): the attributes set so far.
InitCodePart(err_code) ==
    IF err_code # None
    THEN LET code == err_code[1]
             look == DictGetItem(ERROR_CODES, code)
         IN  IF look.exc = ""
             THEN [exc |-> "",
                   obj |-> [err_code |-> code,
                            msg |-> look.item \o " (" \o IntStr(code) \o "). "]]
             ELSE \* except KeyError
                  [exc |-> "",
                   obj |-> [err_code |-> code,
                            msg |-> "Unknown Error (" \o IntStr(code) \o "). "]]
    ELSE [exc |-> "", obj |-> [msg |-> ""]]

\* ADSError.__init__(err_code, text): the exception object, by its attributes.
ADSError_init(err_code, text) ==
    LET built == InitCodePart(err_code)
    IN  IF built.exc # "" THEN built
        ELSE IF text # None
             THEN [built EXCEPT !.obj.msg = @ \o text[1]]
             ELSE built

\* ADSError.__str__
ADSError_str(obj) == "ADSError: " \o obj.msg

Codes == (-MaxCode) .. MaxCode
Texts == {"", "x", "Port not open"}

ErrInit ==
    /\ e_pc = "new"
    /\ e_code \in {None} \cup {Some(c) : c \in Codes}
    /\ e_text \in {None} \cup {Some(t) : t \in Texts}
    /\ e_obj = [exc |-> "unset"]
    /\ e_str = ""

Construct ==
    /\ e_pc = "new"
    /\ e_obj' = ADSError_init(e_code, e_text)
    /\ e_pc' = "built"
    /\ UNCHANGED <<e_code, e_text, e_str, cvars, xvars>>

Render ==
    /\ e_pc = "built"
    /\ e_obj.exc = ""
    /\ e_str' = ADSError_str(e_obj.obj)
    /\ e_pc' = "shown"
    /\ UNCHANGED <<e_code, e_text, e_obj, cvars, xvars>>

ErrNext == Construct \/ Render

(***************************************************************************)
(* ctypes type descriptors and instances                                   *)
(***************************************************************************)

\* A ctypes type, by the name of its metaclass (type(plc_type).__name__).
c_char == [meta |-> "PyCSimpleType", name |-> "c_char"]
c_short == [meta |-> "PyCSimpleType", name |-> "c_short"]
c_bool == [meta |-> "PyCSimpleType", name |-> "c_bool"]
SomeStruct == [meta |-> "PyCStructType", name |-> "SomeStruct"]
\* elem * n
ArrayOf(elem, n) == [meta |-> "PyCArrayType", _type_ |-> elem, _length_ |-> n]
\* POINTER(elem): has _type_ too, and is no array
PointerTo(elem) == [meta |-> "PyCPointerType", _type_ |-> elem]

\* pyads.constants.PLCTYPE_STRING
PLCTYPE_STRING == c_char

MetaName(plc_type) == plc_type.meta

\* Python values
PyNone == [py |-> "NoneType"]
PyInt(n) == [py |-> "int", int |-> n]
PyBool(b) == [py |-> "bool", bool |-> b]
PyBytes(bs) == [py |-> "bytes", bytes |-> bs]
PyStr(cs) == [py |-> "str", chars |-> cs]
PyList(xs) == [py |-> "list", elems |-> xs]
\* instances of ctypes types
\* a simple instance holds its raw number (c_bool: 0 or 1), an array its elements
CSimple(t, v) == [py |-> "cdata", ctype |-> t, raw |-> v]
CArray(t, items) == [py |-> "cdata", ctype |-> t, items |-> items]
CStruct(t) == [py |-> "cdata", ctype |-> t]
CPointer(t) == [py |-> "cdata", ctype |-> t, contents |-> 0]

Return(v) == [exc |-> "", val |-> v]
Raise(e) == [exc |-> e]

IsCData(x) == x.py = "cdata"
IsCharArray(x) ==
    IsCData(x) /\ MetaName(x.ctype) = "PyCArrayType" /\ x.ctype._type_ = c_char

\* The bytes a char array holds
RawBytes(x) == [i \in 1..Len(x.items) |-> x.items[i].raw]

\* The bytes up to the first NUL (c_char_Array.value).
RECURSIVE UpToNul(_)
UpToNul(bs) ==
    IF bs = <<>> \/ Head(bs) = 0 THEN <<>> ELSE <<Head(bs)>> \o UpToNul(Tail(bs))

\* hasattr(x, "value"): simple instances and char arrays have the accessor.
HasAttrValue(x) ==
    IsCData(x) /\ (MetaName(x.ctype) = "PyCSimpleType" \/ IsCharArray(x))

\* x.value reading the whole buffer (as x.raw does), not stopping at NUL
GetAttrValue_Raw(x) ==
    IF ~HasAttrValue(x) THEN Raise("AttributeError")
    ELSE IF IsCharArray(x) THEN Return(PyBytes(RawBytes(x)))
    ELSE IF x.ctype = c_char THEN Return(PyBytes(<<x.raw>>))
    ELSE IF x.ctype = c_bool THEN Return(PyBool(x.raw # 0))
    ELSE Return(PyInt(x.raw))

\* x.value
GetAttrValue(x) ==
    IF ~HasAttrValue(x) THEN Raise("AttributeError")
    ELSE IF IsCharArray(x) THEN Return(PyBytes(UpToNul(RawBytes(x))))
    ELSE IF x.ctype = c_char THEN Return(PyBytes(<<x.raw>>))
    ELSE IF x.ctype = c_bool THEN Return(PyBool(x.raw # 0))
    ELSE Return(PyInt(x.raw))

\* One element of a ctypes array as iteration yields it: simple elements are
\* unwrapped (c_char to bytes of length 1), compound ones stay instances.
ElemValue(item) ==
    IF MetaName(item.ctype) = "PyCSimpleType" THEN GetAttrValue(item).val ELSE item

\* [i for i in x]
ListOf(x) ==
    IF IsCData(x) /\ MetaName(x.ctype) = "PyCArrayType"
    THEN Return(PyList([i \in 1..Len(x.items) |-> ElemValue(x.items[i])]))
    ELSE IF x.py = "bytes"
    THEN Return(PyList([i \in 1..Len(x.bytes) |-> PyInt(x.bytes[i])]))
    ELSE Raise("TypeError")

IsCont(b) == b >= 128 /\ b <= 191

\* The code points of a UTF-8 byte sequence; ok is FALSE where bytes.decode
\* raises UnicodeDecodeError.
RECURSIVE Utf8CodePoints(_)
Utf8CodePoints(bs) ==
    LET n == Len(bs)
        rest(k) == Utf8CodePoints(SubSeq(bs, k + 1, n))
        cons(cp, k) == IF rest(k).ok
                       THEN [ok |-> TRUE, cps |-> <<cp>> \o rest(k).cps]
                       ELSE [ok |-> FALSE]
    IN  IF n = 0 THEN [ok |-> TRUE, cps |-> <<>>]
        ELSE IF bs[1] < 128 THEN cons(bs[1], 1)
        ELSE IF bs[1] >= 194 /\ bs[1] <= 223
        THEN IF n >= 2 /\ IsCont(bs[2])
             THEN cons((bs[1] - 192) * 64 + (bs[2] - 128), 2)
             ELSE [ok |-> FALSE]
        ELSE IF bs[1] >= 224 /\ bs[1] <= 239
        THEN IF /\ n >= 3 /\ IsCont(bs[2]) /\ IsCont(bs[3])
                /\ (bs[1] = 224 => bs[2] >= 160)
                /\ (bs[1] = 237 => bs[2] <= 159)
             THEN cons((bs[1] - 224) * 4096 + (bs[2] - 128) * 64 + (bs[3] - 128), 3)
             ELSE [ok |-> FALSE]
        ELSE IF bs[1] >= 240 /\ bs[1] <= 244
        THEN IF /\ n >= 4 /\ IsCont(bs[2]) /\ IsCont(bs[3]) /\ IsCont(bs[4])
                /\ (bs[1] = 240 => bs[2] >= 144)
                /\ (bs[1] = 244 => bs[2] <= 143)
             THEN cons((bs[1] - 240) * 262144 + (bs[2] - 128) * 4096
                           + (bs[3] - 128) * 64 + (bs[4] - 128), 4)
             ELSE [ok |-> FALSE]
        ELSE [ok |-> FALSE]

\* v.decode("utf-8"): only bytes have the method.
DecodeUtf8(v) ==
    IF v.py # "bytes" THEN Raise("AttributeError")
    ELSE LET d == Utf8CodePoints(v.bytes)
         IN  IF d.ok THEN Return(PyStr(d.cps)) ELSE Raise("UnicodeDecodeError")

(***************************************************************************)
(* type_is_string, get_value_from_ctype_data                               *)
(***************************************************************************)

\* type_is_string looking through nested arrays for a character element
type_is_string_Deep(plc_type) ==
    IF plc_type = PLCTYPE_STRING THEN TRUE
    ELSE IF MetaName(plc_type) = "PyCArrayType"
              /\ (\/ plc_type._type_ = PLCTYPE_STRING
                  \/ /\ MetaName(plc_type._type_) = "PyCArrayType"
                     /\ plc_type._type_._type_ = PLCTYPE_STRING) THEN TRUE
    ELSE FALSE

type_is_string(plc_type) ==
    IF plc_type = PLCTYPE_STRING THEN TRUE
    ELSE IF MetaName(plc_type) = "PyCArrayType"
              /\ plc_type._type_ = PLCTYPE_STRING THEN TRUE
    ELSE FALSE

\* The string branch (lines 108-109): read_data.value.decode("utf-8")
DecodeStringBranch(read_data) ==
    LET v == GetAttrValue(read_data)
    IN  IF v.exc # "" THEN v ELSE DecodeUtf8(v.val)

get_value_from_ctype_data(read_data, plc_type) ==
    IF read_data = PyNone THEN Return(PyNone)
    ELSE IF type_is_string(plc_type) THEN DecodeStringBranch(read_data)
    ELSE IF MetaName(plc_type) = "PyCArrayType" THEN ListOf(read_data)
    ELSE IF HasAttrValue(read_data) THEN GetAttrValue(read_data)
    ELSE Return(read_data)

\* text.encode("ascii") written into a (c_char * n) buffer: cut at n bytes,
\* the rest of the buffer zero.
EncodeIntoBuffer(text, n) ==
    CArray(ArrayOf(c_char, n),
           [i \in 1..n |->
               CSimple(c_char, IF i <= Len(text.chars) THEN text.chars[i] ELSE 0)])

(***************************************************************************)
(* The inputs of the conversion                                            *)
(***************************************************************************)

\* byte values: NUL, "a", two bytes that are UTF-8 only as the pair 195 169
ByteVals == {0, 97, 195, 169}
IntVals == {1, 2, 3}
AsciiVals == {0, 97, 98}

SeqsOf(S, lo, hi) == UNION {[1..n -> S] : n \in lo..hi}

SimpleTypes == {c_char, c_short, c_bool}
FlatArrayTypes == {ArrayOf(t, n) : t \in SimpleTypes \cup {SomeStruct}, n \in 1..MaxLen}
NestedArrayTypes ==
    {ArrayOf(ArrayOf(t, n), m) : t \in {c_char, c_short}, n \in 1..2, m \in 1..2}
Descriptors ==
    SimpleTypes \cup {SomeStruct, PointerTo(c_char)} \cup FlatArrayTypes
        \cup NestedArrayTypes

\* The instances of the ctypes type t.
RECURSIVE Instances(_)
Instances(t) ==
    IF t = c_char THEN {CSimple(t, b) : b \in ByteVals}
    ELSE IF t = c_short THEN {CSimple(t, i) : i \in IntVals}
    ELSE IF t = c_bool THEN {CSimple(t, b) : b \in {0, 1}}
    ELSE IF MetaName(t) = "PyCStructType" THEN {CStruct(t)}
    ELSE IF MetaName(t) = "PyCPointerType" THEN {CPointer(t)}
    ELSE {CArray(t, items) : items \in [1..t._length_ -> Instances(t._type_)]}

Buffers == {PyNone, PyInt(7)} \cup UNION {Instances(t) : t \in Descriptors}

\* x is an instance of the ctypes type t.
Conforms(x, t) == IsCData(x) /\ x.ctype = t

AsciiTexts == {PyStr(cs) : cs \in SeqsOf(AsciiVals, 0, MaxStrLen)}

CodecInit ==
    \/ /\ c_pc = "ready"
       /\ c_s = None
       /\ c_buf \in Buffers
       /\ c_type \in Descriptors
       /\ c_isstr = FALSE
       /\ c_res = Raise("unset")
    \/ /\ c_pc = "start"
       /\ c_s \in {Some(t) : t \in AsciiTexts}
       /\ c_buf = PyNone
       /\ c_type \in {ArrayOf(c_char, n) : n \in 1..MaxLen}
       /\ c_isstr = FALSE
       /\ c_res = Raise("unset")

\* the caller writes the text into a buffer of the declared length
WriteBuffer ==
    /\ c_pc = "start"
    /\ c_buf' = EncodeIntoBuffer(c_s[1], c_type._length_)
    /\ c_pc' = "ready"
    /\ UNCHANGED <<c_s, c_type, c_isstr, c_res, evars, xvars>>

CallTypeIsString ==
    /\ c_pc = "ready"
    /\ c_isstr' = type_is_string(c_type)
    /\ c_pc' = "typed"
    /\ UNCHANGED <<c_s, c_buf, c_type, c_res, evars, xvars>>

CallGetValue ==
    /\ c_pc = "typed"
    /\ c_res' = get_value_from_ctype_data(c_buf, c_type)
    /\ c_pc' = "decoded"
    /\ UNCHANGED <<c_s, c_buf, c_type, c_isstr, evars, xvars>>

CodecNext == WriteBuffer \/ CallTypeIsString \/ CallGetValue


(***************************************************************************)
(* send_raw_udp_message                                                    *)
(*                                                                         *)
(* Each caller runs the function step by step: socket(), bind, sendto,     *)
(* settimeout, recvfrom, the close of closing.__exit__, and the return or  *)
(* the exception reaching the caller. The system's sockets, the network    *)
(* and the remote device are the environment.                              *)
(***************************************************************************)

Callers == 1..MaxCalls
\* one descriptor per call suffices when nothing leaks
Fds == 1..MaxCalls
\* the ephemeral ports the system hands out
Ports == 1..MaxCalls
\* "plc" answers requests, "void" never does
Hosts == {"plc", "void"}
Messages == {<<7>>}
Payloads == {<<5>>, <<5, 6>>}
ReplyLengths == {1}

NoArgs == [ip_address |-> "void", message |-> <<7>>, expected_return_length |-> 1]
FreeFd == [open |-> FALSE, owner |-> 0, port |-> 0, timeout |-> None, rx |-> <<>>]

XInit ==
    /\ x_pc = [c \in Callers |-> "idle"]
    /\ x_args = [c \in Callers |-> NoArgs]
    /\ x_sock = [c \in Callers |-> 0]
    /\ x_out = [c \in Callers |-> [exc |-> "unset"]]
    /\ x_waited = [c \in Callers |-> 0]
    /\ x_fds = [f \in Fds |-> FreeFd]
    /\ x_net = {}
    /\ x_log = [c \in Callers |-> <<>>]
    /\ x_sent = [c \in Callers |-> <<>>]
    /\ x_got = [c \in Callers |-> <<>>]
    /\ x_port = [c \in Callers |-> 0]

\* a datagram handed to the network
Transmit(net, d) == net \cup {d}

\* the call's exception or return value is fixed; the with block is left next
Leave(c, outcome, op) ==
    /\ x_out' = [x_out EXCEPT ![c] = outcome]
    /\ x_log' = [x_log EXCEPT ![c] = Append(@, op)]
    /\ x_pc' = [x_pc EXCEPT ![c] = "exit"]

\* a caller calls send_raw_udp_message(ip_address, message, expected_return_length)
Call(c) ==
    /\ x_pc[c] = "idle"
    /\ \E h \in Hosts, m \in Messages, n \in ReplyLengths :
           x_args' = [x_args EXCEPT ![c] =
               [ip_address |-> h, message |-> m, expected_return_length |-> n]]
    /\ x_pc' = [x_pc EXCEPT ![c] = "socket"]
    /\ UNCHANGED <<x_sock, x_out, x_waited, x_fds, x_net, x_log, x_sent,
                   x_got, x_port, evars, cvars>>

\* OpenSocket handing out one socket kept for all calls (descriptor 1)
OpenSocket_Shared(c) ==
    /\ x_pc[c] = "socket"
    /\ x_fds' = IF x_fds[1].open THEN x_fds
                ELSE [x_fds EXCEPT ![1] = [FreeFd EXCEPT !.open = TRUE, !.owner = c]]
    /\ x_sock' = [x_sock EXCEPT ![c] = 1]
    /\ x_pc' = [x_pc EXCEPT ![c] = "bind"]
    /\ UNCHANGED <<x_args, x_out, x_waited, x_net, x_log, x_sent, x_got,
                   x_port, evars, cvars>>

\* line 61, socket.socket(AF_INET, SOCK_DGRAM): the lowest free descriptor,
\* blocking (no timeout), unbound
OpenSocket(c) ==
    /\ x_pc[c] = "socket"
    /\ \E f \in Fds :
        /\ ~x_fds[f].open
        /\ \A g \in Fds : g < f => x_fds[g].open
        /\ x_fds' = [x_fds EXCEPT ![f] = [FreeFd EXCEPT !.open = TRUE, !.owner = c]]
        /\ x_sock' = [x_sock EXCEPT ![c] = f]
    /\ x_pc' = [x_pc EXCEPT ![c] = "bind"]
    /\ UNCHANGED <<x_args, x_out, x_waited, x_net, x_log, x_sent, x_got,
                   x_port, evars, cvars>>

\* line 63, sock.bind(("", 0)): the system picks a port no open socket has
\* (ports are alike: the lowest such port, so that a port is used again as
\* soon as it can be)
PortFree(p) == \A f \in Fds : x_fds[f].open => x_fds[f].port # p

Bind(c) ==
    /\ x_pc[c] = "bind"
    /\ \E p \in Ports :
        /\ PortFree(p)
        /\ \A q \in Ports : q < p => ~PortFree(q)
        /\ x_fds' = [x_fds EXCEPT ![x_sock[c]].port = p]
        /\ x_port' = [x_port EXCEPT ![c] = p]
    /\ x_log' = [x_log EXCEPT ![c] = Append(@, "bind")]
    /\ x_pc' = [x_pc EXCEPT ![c] = "sendto"]
    /\ UNCHANGED <<x_args, x_sock, x_out, x_waited, x_net, x_sent, x_got, evars, cvars>>

\* line 63, sock.bind raises OSError
BindFault(c) ==
    /\ x_pc[c] = "bind"
    /\ Leave(c, Raise("OSError"), "bind")
    /\ UNCHANGED <<x_args, x_sock, x_waited, x_fds, x_net, x_sent, x_got,
                   x_port, evars, cvars>>

\* line 66, sock.sendto(message, (ip_address, PORT_REMOTE_UDP))
SendTo(c) ==
    /\ x_pc[c] = "sendto"
    /\ LET d == [kind |-> "request",
                 to |-> <<x_args[c].ip_address, PORT_REMOTE_UDP>>,
                 fromport |-> x_fds[x_sock[c]].port,
                 data |-> x_args[c].message]
       IN  /\ x_net' = Transmit(x_net, d)
           /\ x_sent' = [x_sent EXCEPT ![c] = Append(@, d)]
    /\ x_log' = [x_log EXCEPT ![c] = Append(@, "sendto")]
    /\ x_pc' = [x_pc EXCEPT ![c] = "settimeout"]
    /\ UNCHANGED <<x_args, x_sock, x_out, x_waited, x_fds, x_got, x_port, evars, cvars>>

\* line 66, sock.sendto raises OSError (no route, name not resolved): nothing
\* is sent
SendToFault(c) ==
    /\ x_pc[c] = "sendto"
    /\ Leave(c, Raise("OSError"), "sendto")
    /\ UNCHANGED <<x_args, x_sock, x_waited, x_fds, x_net, x_sent, x_got,
                   x_port, evars, cvars>>

\* SetTimeout leaving the socket blocking
SetTimeout_None(c) ==
    /\ x_pc[c] = "settimeout"
    /\ x_log' = [x_log EXCEPT ![c] = Append(@, "settimeout")]
    /\ x_pc' = [x_pc EXCEPT ![c] = "recvfrom"]
    /\ UNCHANGED <<x_args, x_sock, x_out, x_waited, x_fds, x_net, x_sent,
                   x_got, x_port, evars, cvars>>

\* line 70, sock.settimeout(5)
SetTimeout(c) ==
    /\ x_pc[c] = "settimeout"
    /\ x_fds' = [x_fds EXCEPT ![x_sock[c]].timeout = Some(RECV_TIMEOUT)]
    /\ x_log' = [x_log EXCEPT ![c] = Append(@, "settimeout")]
    /\ x_pc' = [x_pc EXCEPT ![c] = "recvfrom"]
    /\ UNCHANGED <<x_args, x_sock, x_out, x_waited, x_net, x_sent, x_got,
                   x_port, evars, cvars>>

\* recvfrom(bufsize) of a datagram: at most bufsize bytes of it, the rest is
\* discarded
Truncated(data, bufsize) ==
    IF Len(data) <= bufsize THEN data ELSE SubSeq(data, 1, bufsize)

\* line 73, sock.recvfrom(expected_return_length) returns the first buffered
\* datagram as (bytes, address)
RecvFrom(c) ==
    /\ x_pc[c] = "recvfrom"
    /\ x_fds[x_sock[c]].rx # <<>>
    /\ LET d == Head(x_fds[x_sock[c]].rx)
       IN  /\ x_got' = [x_got EXCEPT ![c] = Append(@, d)]
           /\ Leave(c, Return(<<Truncated(d.data, x_args[c].expected_return_length),
                                d.from>>), "recvfrom")
    /\ x_fds' = [x_fds EXCEPT ![x_sock[c]].rx = Tail(@)]
    /\ UNCHANGED <<x_args, x_sock, x_waited, x_net, x_sent, x_port, evars, cvars>>

\* RecvFromTimeout caught inside the function, which then sends again
RecvFromTimeout_Retry(c) ==
    /\ x_pc[c] = "recvfrom"
    /\ x_fds[x_sock[c]].timeout # None
    /\ x_fds[x_sock[c]].rx = <<>>
    /\ x_log' = [x_log EXCEPT ![c] = Append(@, "recvfrom")]
    /\ x_waited' = [x_waited EXCEPT ![c] = 0]
    /\ x_pc' = [x_pc EXCEPT ![c] = "sendto"]
    /\ UNCHANGED <<x_args, x_sock, x_out, x_fds, x_net, x_sent, x_got,
                   x_port, evars, cvars>>

\* line 73, sock.recvfrom raises socket.timeout: the call has been blocked
\* for the socket's timeout with nothing to read. A socket without timeout
\* blocks until a datagram is there.
RecvFromTimeout(c) ==
    /\ x_pc[c] = "recvfrom"
    /\ x_fds[x_sock[c]].timeout # None
    /\ x_fds[x_sock[c]].rx = <<>>
    /\ x_waited' = [x_waited EXCEPT ![c] = x_fds[x_sock[c]].timeout[1]]
    /\ Leave(c, Raise("timeout"), "recvfrom")
    /\ UNCHANGED <<x_args, x_sock, x_fds, x_net, x_sent, x_got,
                   x_port, evars, cvars>>

\* ExitClose as a sock.close() placed after the receive, which an exception
\* skips
ExitClose_OnlyOnReturn(c) ==
    /\ x_pc[c] = "exit"
    /\ x_fds' = IF x_out[c].exc = "" THEN [x_fds EXCEPT ![x_sock[c]] = FreeFd]
                ELSE x_fds
    /\ x_sock' = [x_sock EXCEPT ![c] = 0]
    /\ x_pc' = [x_pc EXCEPT ![c] = "done"]
    /\ UNCHANGED <<x_args, x_out, x_waited, x_net, x_log, x_sent, x_got,
                   x_port, evars, cvars>>

\* line 61, closing.__exit__: sock.close(), on a return and on an exception
ExitClose(c) ==
    /\ x_pc[c] = "exit"
    /\ x_fds' = [x_fds EXCEPT ![x_sock[c]] = FreeFd]
    /\ x_sock' = [x_sock EXCEPT ![c] = 0]
    /\ x_pc' = [x_pc EXCEPT ![c] = "done"]
    /\ UNCHANGED <<x_args, x_out, x_waited, x_net, x_log, x_sent, x_got,
                   x_port, evars, cvars>>

\* the device answers a request that reached it
DeviceReply ==
    /\ \E d \in x_net, data \in Payloads :
        /\ d.kind = "request"
        /\ d.to[1] = "plc"
        /\ x_net' = (x_net \ {d}) \cup
               {[kind |-> "reply", toport |-> d.fromport, from |-> d.to,
                 data |-> data]}
    /\ UNCHANGED <<x_pc, x_args, x_sock, x_out, x_waited, x_fds, x_log,
                   x_sent, x_got, x_port, evars, cvars>>

\* a reply arrives: buffered by the open socket bound to its port, if there
\* is one, and dropped otherwise
Deliver ==
    /\ \E d \in x_net :
        /\ d.kind = "reply"
        /\ x_net' = x_net \ {d}
        /\ x_fds' = [f \in Fds |->
               IF x_fds[f].open /\ x_fds[f].port = d.toport
               THEN [x_fds[f] EXCEPT !.rx = Append(@, d)]
               ELSE x_fds[f]]
    /\ UNCHANGED <<x_pc, x_args, x_sock, x_out, x_waited, x_log, x_sent,
                   x_got, x_port, evars, cvars>>

CallStep(c) ==
    \/ OpenSocket(c)
    \/ Bind(c) \/ BindFault(c)
    \/ SendTo(c) \/ SendToFault(c)
    \/ SetTimeout(c)
    \/ RecvFrom(c) \/ RecvFromTimeout(c)
    \/ ExitClose(c)

XNext ==
    \/ \E c \in Callers : Call(c) \/ CallStep(c)
    \/ DeviceReply \/ Deliver

(***************************************************************************)
(* Specifications                                                          *)
(***************************************************************************)

ErrIdle ==
    /\ e_pc = "off" /\ e_code = None /\ e_text = None
    /\ e_obj = [exc |-> "unset"] /\ e_str = ""

CodecIdle ==
    /\ c_pc = "off" /\ c_s = None /\ c_buf = PyNone /\ c_type = c_char
    /\ c_isstr = FALSE /\ c_res = Raise("unset")

InitError == ErrInit /\ CodecIdle /\ XInit
SpecError == InitError /\ [][ErrNext]_vars

InitCodec == CodecInit /\ ErrIdle /\ XInit
SpecCodec == InitCodec /\ [][CodecNext]_vars

InitExchange == XInit /\ ErrIdle /\ CodecIdle
SpecExchange == InitExchange /\ [][XNext]_vars

\* The interpreter runs every started call on: a step of a call that stays
\* possible is taken (a blocked recvfrom ends when its timeout has passed).
\* The network and the device owe nothing.
FairExchange ==
    /\ SpecExchange
    /\ \A c \in Callers : WF_vars(CallStep(c))

(***************************************************************************)
(* Properties of ADSError                                                  *)
(***************************************************************************)

CodePart(code) ==
    IF code = None THEN ""
    ELSE IF code[1] \in DOMAIN ERROR_CODES
    THEN ERROR_CODES[code[1]] \o " (" \o ToString(code[1]) \o "). "
    ELSE "Unknown Error (" \o ToString(code[1]) \o "). "

TextPart(text) == IF text = None THEN "" ELSE text[1]

\* C1: for every code (0 and negative ones included) and every optional
\* text, constructing the error raises nothing and its message is the code
\* part ("<description> (<code>). " for a code of the table, "Unknown Error
\* (<code>). " for any other code, "" without a code) followed by the text
\* part (the text, "" without a text).
C1_MessageIsCodePartThenText ==
    e_pc # "new" =>
        /\ e_obj.exc = ""
        /\ e_obj.obj.msg = CodePart(e_code) \o TextPart(e_text)

\* an error built from the unknown negative code -3 and the text "x"
C1_Witness ==
    /\ e_pc = "built"
    /\ e_code = Some(-3) /\ -3 \notin DOMAIN ERROR_CODES
    /\ e_text = Some("x")
    /\ e_obj.exc = ""
    /\ e_obj.obj.msg = "Unknown Error (-3). x"

\* C10: the error has the attribute err_code exactly when a code was given,
\* and it is then the given code; without a code the attribute is absent;
\* the attribute msg is always there.
C10_CodeFieldIffCodeGiven ==
    e_pc # "new" =>
        /\ e_obj.exc = ""
        /\ "msg" \in DOMAIN e_obj.obj
        /\ ("err_code" \in DOMAIN e_obj.obj) <=> (e_code # None)
        /\ e_code # None => e_obj.obj.err_code = e_code[1]

\* an error built without a code: msg is its only attribute
C10_Witness ==
    /\ e_pc = "built"
    /\ e_code = None
    /\ e_obj.exc = ""
    /\ DOMAIN e_obj.obj = {"msg"}

(***************************************************************************)
(* Properties of type_is_string and get_value_from_ctype_data              *)
(***************************************************************************)

IsArrayType(t) == t.meta = "PyCArrayType"
IsStringType(t) == t = c_char \/ (IsArrayType(t) /\ t._type_ = c_char)
Decoded == c_pc = "decoded"

\* C7: type_is_string is true exactly for the single-character descriptor
\* and for an array whose immediate element is it; false for every other
\* scalar, for an array of other elements and for an array of char arrays.
C7_TypeIsStringExactly ==
    c_pc \in {"typed", "decoded"} =>
        /\ c_isstr <=> IsStringType(c_type)
        /\ (~IsArrayType(c_type) /\ c_type # c_char) => ~c_isstr
        /\ (IsArrayType(c_type) /\ c_type._type_ # c_char) => ~c_isstr
        /\ (IsArrayType(c_type) /\ IsArrayType(c_type._type_)
                /\ c_type._type_._type_ = c_char) => ~c_isstr

\* an array of character arrays was classified, as no string
C7_Witness ==
    /\ c_pc = "typed"
    /\ c_type = ArrayOf(ArrayOf(c_char, 2), 2)
    /\ ~c_isstr

\* the buffer is None or an instance of the descriptor
WellTyped == c_buf = PyNone \/ Conforms(c_buf, c_type)

\* C5, for the buffers the conversion is specified for (None, or an instance
\* of the descriptor): get_value_from_ctype_data never raises; it returns
\* None for None and the buffer itself for a shape it does not recognise.
C5_DecodeNeverRaises ==
    (Decoded /\ WellTyped) =>
        /\ c_res.exc = ""
        /\ c_buf = PyNone => c_res.val = PyNone
        /\ (c_buf # PyNone /\ ~IsStringType(c_type) /\ ~IsArrayType(c_type)
                /\ ~HasAttrValue(c_buf)) => c_res.val = c_buf

\* C6, for the same buffers: the cases apply in the order (1) None gives
\* None, (2) a string descriptor gives one text string, (3) another array
\* descriptor gives the list of the buffer's elements in order, (4) a buffer
\* with the accessor gives the unwrapped value, (5) else the buffer itself.
C6_DispatchOrder ==
    (Decoded /\ WellTyped) =>
        IF c_buf = PyNone THEN c_res = Return(PyNone)
        ELSE IF IsStringType(c_type)
        THEN c_res.exc = "" /\ c_res.val.py = "str"
        ELSE IF IsArrayType(c_type)
        THEN /\ c_res.exc = "" /\ c_res.val.py = "list"
             /\ Len(c_res.val.elems) = c_type._length_
             /\ \A i \in 1..c_type._length_ :
                    c_res.val.elems[i] = ElemValue(c_buf.items[i])
        ELSE IF HasAttrValue(c_buf)
        THEN c_res = Return(IF c_buf.ctype = c_bool THEN PyBool(c_buf.raw # 0)
                            ELSE PyInt(c_buf.raw))
        ELSE c_res = Return(c_buf)

FirstN(cs, n) == IF Len(cs) <= n THEN cs ELSE SubSeq(cs, 1, n)
HasNul(cs) == \E i \in 1..Len(cs) : cs[i] = 0
\* cs up to its first NUL
BeforeNul(cs) ==
    IF HasNul(cs)
    THEN SubSeq(cs, 1, (CHOOSE i \in 1..Len(cs) :
                            cs[i] = 0 /\ \A j \in 1..(i - 1) : cs[j] # 0) - 1)
    ELSE cs

RoundTripDone == Decoded /\ c_s # None

\* C8 as stated: for every ASCII text s and buffer length n, writing s into
\* a character buffer of length n and decoding it gives s when s fits in n
\* characters and the first n characters of s otherwise.
C8_RoundTripEveryAscii ==
    RoundTripDone =>
        c_res = Return(PyStr(FirstN(c_s[1].chars, c_type._length_)))

\* C8 as amended: the round trip gives s (the first n characters of s, when
\* s is longer than n) up to the first NUL character among them; for a text
\* without NUL that is s, or its first n characters.
C8_RoundTripUpToNul ==
    RoundTripDone =>
        /\ c_res = Return(PyStr(BeforeNul(FirstN(c_s[1].chars, c_type._length_))))
        /\ ~HasNul(c_s[1].chars) =>
               c_res = Return(PyStr(FirstN(c_s[1].chars, c_type._length_)))

\* "aba" written into a buffer of 2 characters came back as "ab"
C8_Witness ==
    /\ RoundTripDone
    /\ c_s[1].chars = <<97, 98, 97>>
    /\ c_type._length_ = 2
    /\ c_res = Return(PyStr(<<97, 98>>))

(***************************************************************************)
(* Properties of send_raw_udp_message                                      *)
(***************************************************************************)

\* the call of c holds a socket: socket() has returned, close() has not
HoldsSocket(c) == x_pc[c] \in {"bind", "sendto", "settimeout", "recvfrom", "exit"}
\* the call of c is over (or none has begun)
Outside(c) == x_pc[c] \in {"idle", "socket", "done"}
Ended(c) == x_pc[c] = "done"
AllClosed == \A f \in Fds : ~x_fds[f].open

\* C2: a socket is open only while the call that acquired it runs: once a
\* call has left (by a reply, by the timeout or by a fault in bind or send)
\* its socket is closed, and when no call runs no socket is open.
C2_SocketsReleased ==
    /\ \A f \in Fds : x_fds[f].open =>
           HoldsSocket(x_fds[f].owner) /\ x_sock[x_fds[f].owner] = f
    /\ (\A c \in Callers : Outside(c)) => AllClosed

\* two calls have ended on the timeout, and no socket is open
C2_Witness ==
    /\ \E c1, c2 \in Callers :
        /\ c1 # c2
        /\ Ended(c1) /\ x_out[c1] = Raise("timeout")
        /\ Ended(c2) /\ x_out[c2] = Raise("timeout")
    /\ \A c \in Callers : Outside(c)
    /\ AllClosed

\* C3: every call that was started ends, and a call that set its receive
\* deadline and read no datagram ends with the timeout exception, which
\* reaches the caller.
C3_CallsTerminate ==
    /\ \A c \in Callers : (x_pc[c] # "idle") ~> Ended(c)
    /\ [](\A c \in Callers :
            (Ended(c) /\ Len(x_log[c]) = 4 /\ x_got[c] = <<>>) =>
                x_out[c] = Raise("timeout"))

\* a call to the silent host has ended with the timeout after 5 seconds
C3_Witness ==
    \E c \in Callers :
        /\ Ended(c)
        /\ x_args[c].ip_address = "void"
        /\ x_waited[c] = RECV_TIMEOUT
        /\ x_out[c] = Raise("timeout")

StepOrder == <<"bind", "sendto", "settimeout", "recvfrom">>
IsPrefix(a, b) == Len(a) <= Len(b) /\ SubSeq(b, 1, Len(a)) = a
Target(c) == <<x_args[c].ip_address, PORT_REMOTE_UDP>>

C9_OwnSocket ==
    /\ \A c \in Callers : HoldsSocket(c) <=> x_sock[c] # 0
    /\ \A c1, c2 \in Callers :
           (c1 # c2 /\ x_sock[c1] # 0) => x_sock[c1] # x_sock[c2]
    /\ \A c \in Callers : x_sock[c] # 0 =>
           /\ x_fds[x_sock[c]].open
           /\ x_fds[x_sock[c]].owner = c
           /\ x_fds[x_sock[c]].port = x_port[c]
    /\ \A c1, c2 \in Callers :
           (c1 # c2 /\ x_sock[c1] # 0 /\ x_sock[c2] # 0 /\ x_port[c1] # 0)
               => x_port[c1] # x_port[c2]
    /\ \A c \in Callers : x_got[c] # <<>> =>
           x_port[c] # 0 /\ x_got[c][1].toport = x_port[c]

\* one call has taken its reply and closed its socket while another call,
\* still waiting in recvfrom, has its socket open
C9_Witness ==
    \E c1, c2 \in Callers :
        /\ c1 # c2
        /\ Ended(c1) /\ x_got[c1] # <<>> /\ x_sock[c1] = 0
        /\ x_pc[c2] = "recvfrom"
        /\ x_fds[x_sock[c2]].open

====
